---- MODULE Spec2Model ----
(***************************************************************************)
(* TinyLink (server.js): an Express application over a PostgreSQL table    *)
(* `links`.  Every HTTP request is one record of the bag `reqs`: the      *)
(* handler's locals, its position and its response.  Every `await` of a    *)
(* store call is one step, taken together with the synchronous code that   *)
(* follows it up to the next `await`.  `store` is the committed content of *)
(* the table; a row lock taken by SELECT ... FOR UPDATE is held by the     *)
(* request whose record says so.                                           *)
(***************************************************************************)
EXTENDS Integers, Sequences, FiniteSets, Bags, TLC

(* ------------------------------ bounds --------------------------------- *)
\* number of HTTP requests the clients send in one run
MaxRequests == 2
\* number of distinct outcomes of Math.random() the model draws for the last
\* character of a generated code (the other characters draw index 0)
NRandom == 2
\* last value of the store's clock
MaxClock == 2
\* number of HTTP requests in a run that draws from the larger sets of
\* request values
MaxInputRequests == 1

(* --------------------------- JavaScript values ------------------------- *)
\* a value of req.body / req.params: its typeof and its text
Undefined == [t |-> "undefined", v |-> <<>>]
Str(s) == [t |-> "string", v |-> s]
Num(s) == [t |-> "number", v |-> s]

\* JavaScript truthiness, as used by `!url` and `if (code)`
Truthy(x) ==
    CASE x.t = "undefined" -> FALSE
      [] x.t = "string"    -> x.v # <<>>
      [] x.t = "number"    -> x.v # <<"0">>

\* String(x), the coercion RegExp.prototype.test applies to its argument
StringOf(x) ==
    IF x.t = "undefined"
      THEN <<"u","n","d","e","f","i","n","e","d">>
      ELSE x.v

(* ------------------------------- helpers ------------------------------- *)
\* server.js:38
chars ==
    << "A","B","C","D","E","F","G","H","I","J","K","L","M",
       "N","O","P","Q","R","S","T","U","V","W","X","Y","Z",
       "a","b","c","d","e","f","g","h","i","j","k","l","m",
       "n","o","p","q","r","s","t","u","v","w","x","y","z",
       "0","1","2","3","4","5","6","7","8","9" >>

Alnum == {chars[i] : i \in 1..Len(chars)}
Letters == {chars[i] : i \in 1..52}

\* server.js:21-25  CODE_REGEX = /^[A-Za-z0-9]{6,8}$/
isValidCode(code) ==
    LET s == StringOf(code)
    IN  /\ Len(s) >= 6
        /\ Len(s) <= 8
        /\ \A i \in 1..Len(s) : s[i] \in Alnum

\* index of the first occurrence of ch in s, 0 when there is none
IndexOf(s, ch) ==
    IF \E i \in 1..Len(s) : s[i] = ch
      THEN CHOOSE i \in 1..Len(s) : s[i] = ch /\ \A j \in 1..(i-1) : s[j] # ch
      ELSE 0

Lower(ch) ==
    IF \E i \in 1..26 : chars[i] = ch
      THEN chars[(CHOOSE i \in 1..26 : chars[i] = ch) + 26]
      ELSE ch

\* new URL(url) without a base: the scheme is the text before the first ':',
\* a letter followed by letters, digits, '+', '-' or '.'; no scheme throws;
\* http and https need a non-empty host after the slashes
ParseURL(s) ==
    LET k      == IndexOf(s, ":")
        okSch  == /\ k > 1
                  /\ s[1] \in Letters
                  /\ \A i \in 2..(k-1) : s[i] \in Alnum \cup {"+", "-", "."}
        proto  == [i \in 1..k |-> Lower(s[i])]
        rest   == SubSeq(s, k+1, Len(s))
        host   == SelectSeq(rest, LAMBDA c : c # "/" /\ c # "\\")
        special == proto \in {<<"h","t","t","p",":">>, <<"h","t","t","p","s",":">>}
    IN  IF ~okSch THEN [ok |-> FALSE, protocol |-> <<>>]
        ELSE IF special /\ host = <<>> THEN [ok |-> FALSE, protocol |-> <<>>]
        ELSE [ok |-> TRUE, protocol |-> proto]

\* server.js:27-35
isValidUrl(url) ==
    LET u == ParseURL(url)
    IN  IF ~u.ok THEN FALSE
        ELSE u.protocol = <<"h","t","t","p",":">> \/ u.protocol = <<"h","t","t","p","s",":">>

\* the sequences of values of Math.floor(Math.random() * chars.length) the
\* model draws for one call of generateRandomCode(length)
RandomDraws(length) ==
    { [i \in 1..length |-> IF i = length THEN k ELSE 0] : k \in 0..(NRandom-1) }

\* server.js:37-42, for the drawn indexes r
generateRandomCode(length, r) == [i \in 1..length |-> chars[r[i] + 1]]

AllGenerated(length) == { generateRandomCode(length, r) : r \in RandomDraws(length) }


(* ------------------------------ inputs --------------------------------- *)
UrlA == <<"h","t","t","p",":","/","/","a">>
UrlB == <<"h","t","t","p","s",":","/","/","b">>
UrlFtp == <<"f","t","p",":","/","/","c">>

Code6 == generateRandomCode(6, [i \in 1..6 |-> 0])
CodeShort == <<"a","b">>

\* the `url` of a POST body
UrlInputs == {Str(UrlB), Str(UrlFtp)}
\* the `code` of a POST body
BodyCodeInputs == {Undefined, Str(Code6), Str(CodeShort)}
\* the :code of a path
PathCodeInputs == {Str(Code6), Str(CodeShort)}

\* more request values: a missing field, a number, an empty string, a url
\* without a scheme, a url without a host, codes with a space or 9 characters
UrlRel == <<"/","x">>
UrlNoHost == <<"h","t","t","p",":">>
CodeSpace == <<"a","b","c"," ","e","f">>
CodeLong == <<"a","b","c","d","e","f","g","h","i">>
Code8 == <<"a","b","c","d","e","f","g","8">>

WideUrlInputs ==
    UrlInputs \cup { Undefined, Str(UrlRel), Str(UrlNoHost), Str(<<>>),
                     Num(<<"7">>) }
WideBodyCodeInputs ==
    BodyCodeInputs \cup { Str(<<>>), Str(CodeSpace), Str(CodeLong), Str(Code8),
                          Num(<<"0">>), Num(<<"1","2","3","4","5","6">>) }
WidePathCodeInputs ==
    PathCodeInputs \cup { Str(CodeSpace), Str(CodeLong), Str(Code8) }

\* the valid urls among them, for creates that race for one code
RaceUrlInputs == {Str(UrlA), Str(UrlB)}
RaceCodeInputs == {Undefined, Str(Code6)}

(* ------------------------------- state --------------------------------- *)
\* SQL NULL in a timestamp column; the clock starts after it
Null == 0

VARIABLES
    store,      \* committed rows of table links: code -> row
    clock,      \* the last time now() returned
    reqs        \* the requests received so far: a bag of records

vars == <<store, clock, reqs>>

\* a request as it arrives
Blank ==
    [ kind      |-> "none",
      pc        |-> "start",
      arg       |-> Undefined,     \* the request's code: body.code or :code
      url       |-> Undefined,     \* create: `url`
      code      |-> Undefined,     \* the handler's `code`
      tries     |-> 0,             \* create: `tries`
      found     |-> <<>>,          \* redirect: `url` read from the locked row
      held      |-> FALSE,         \* redirect: client checked out of the pool
      released  |-> 0,             \* redirect: calls of client.release()
      txn       |-> "none",        \* redirect: transaction of the client
      txstart   |-> Null,          \* redirect: now() of the transaction
      lock      |-> FALSE,         \* redirect: the transaction holds the row lock
      dirty     |-> FALSE,         \* redirect: uncommitted UPDATE
      status    |-> 0,             \* HTTP status sent, 0 = none
      rows      |-> <<>>,          \* rows sent in the body
      location  |-> <<>>,          \* Location header sent
      rejected  |-> FALSE ]        \* the handler's promise rejected

\* INSERT INTO links (code, url): the other columns take the table defaults
NewRow(url, t) ==
    [url |-> url, clicks |-> 0, last_clicked |-> Null, created_at |-> t]

\* the row as a query returns it
Returned(code) ==
    [ code |-> code, url |-> store[code].url, clicks |-> store[code].clicks,
      last_clicked |-> store[code].last_clicked,
      created_at |-> store[code].created_at ]

Stored(code) == code \in DOMAIN store

\* the values now() may return: the clock does not run backwards
Now == clock..MaxClock

\* the requests, each once
Requests == BagToSet(reqs)

\* an open transaction holds the row lock of code
Locked(code) == \E r \in Requests : r.lock /\ r.arg = Str(code)

\* tables the process may find when it starts
InitStores ==
    LET full(S) == [c \in S |-> NewRow(UrlA, 1)]
    IN  { full({}), full({Code6}), full(AllGenerated(6)),
          full(AllGenerated(6) \cup AllGenerated(7)) }

Init ==
    /\ store \in InitStores
    /\ clock = 1
    /\ reqs = EmptyBag

\* a request arrives and its handler runs up to r
Arrives(r) ==
    /\ BagCardinality(reqs) < MaxRequests
    /\ reqs' = reqs (+) SetToBag({r})

\* the handler of the request at r continues up to r2
Set(r, r2) == reqs' = (reqs (-) SetToBag({r})) (+) SetToBag({r2})

\* the handler has finished: its locals are gone; the request, the response
\* and the state of its pooled client remain
Finished(r) ==
    [Blank EXCEPT !.kind = r.kind, !.pc = "done", !.arg = r.arg,
                  !.url = r.url, !.held = r.held, !.released = r.released, !.txn = r.txn,
                  !.lock = r.lock, !.status = r.status, !.rows = r.rows,
                  !.location = r.location, !.rejected = r.rejected]

\* res.status(s).json(rows) / send / redirect, then the handler returns
Respond(r, s, rows) == Finished([r EXCEPT !.status = s, !.rows = rows])

\* an awaited store call rejects outside any try block: the handler's promise
\* rejects without the handler having answered.  The router either drops the
\* rejection (no response is ever sent) or hands it to its default error
\* handler, which answers 500.
Rejected(r) ==
    { Finished([r EXCEPT !.rejected = TRUE]),
      Finished([r EXCEPT !.rejected = TRUE, !.status = 500]) }

\* outcome of one store call: it is executed, or it fails with an error that
\* is not a constraint violation
Outcomes == {"ok", "error"}

(* -------------------------- POST /api/links ---------------------------- *)
\* variant: the url is only required to be present
CreateStart_AnyUrl(url, maybeCode) ==
    /\ LET r == [Blank EXCEPT !.kind = "create", !.arg = maybeCode,
                              !.url = url, !.code = maybeCode]
       IN  IF ~Truthy(url)
             THEN Arrives(Respond(r, 400, <<>>))
           ELSE IF Truthy(maybeCode)
             THEN IF maybeCode.t # "string" \/ ~isValidCode(maybeCode)
                    THEN Arrives(Respond(r, 400, <<>>))
                    ELSE Arrives([r EXCEPT !.pc = "insert"])
           ELSE Arrives([r EXCEPT !.pc = "loop6", !.tries = 0])
    /\ UNCHANGED <<store, clock>>

\* server.js:57-70, the synchronous prefix of the handler
CreateStart(url, maybeCode) ==
    /\ LET r == [Blank EXCEPT !.kind = "create", !.arg = maybeCode,
                              !.url = url, !.code = maybeCode]
       IN  IF ~Truthy(url) \/ url.t # "string" \/ ~isValidUrl(url.v)
             THEN Arrives(Respond(r, 400, <<>>))
           ELSE IF Truthy(maybeCode)
             THEN IF maybeCode.t # "string" \/ ~isValidCode(maybeCode)
                    THEN Arrives(Respond(r, 400, <<>>))
                    ELSE Arrives([r EXCEPT !.pc = "insert"])
           ELSE Arrives([r EXCEPT !.pc = "loop6", !.tries = 0])
    /\ UNCHANGED <<store, clock>>

\* variant: the first do-while gives up after 4 collisions
Loop6_Four(r0, rnd, out) ==
    /\ r0.pc = "loop6"
    /\ LET code == generateRandomCode(6, rnd)
           r    == [r0 EXCEPT !.code = Str(code)]
       IN  IF out = "error" THEN \E r2 \in Rejected(r) : Set(r0, r2)
           ELSE IF ~Stored(code) THEN Set(r0, [r EXCEPT !.pc = "recheck"])
           ELSE IF r.tries + 1 < 4
             THEN Set(r0, [r EXCEPT !.tries = r.tries + 1])
             ELSE Set(r0, [r EXCEPT !.tries = r.tries + 1, !.pc = "recheck"])
    /\ UNCHANGED <<store, clock>>

\* server.js:71-76, one iteration of the first do-while
Loop6(r0, rnd, out) ==
    /\ r0.pc = "loop6"
    /\ LET code == generateRandomCode(6, rnd)
           r    == [r0 EXCEPT !.code = Str(code)]
       IN  IF out = "error" THEN \E r2 \in Rejected(r) : Set(r0, r2)
           ELSE IF ~Stored(code) THEN Set(r0, [r EXCEPT !.pc = "recheck"])
           ELSE IF r.tries + 1 < 5
             THEN Set(r0, [r EXCEPT !.tries = r.tries + 1])
             ELSE Set(r0, [r EXCEPT !.tries = r.tries + 1, !.pc = "recheck"])
    /\ UNCHANGED <<store, clock>>

\* server.js:79-84; `tries` goes out of scope with the else block
Recheck(r, out) ==
    /\ r.pc = "recheck"
    /\ IF ~Truthy(r.code) THEN Set(r, [r EXCEPT !.pc = "loop7"])
       ELSE IF out = "error" THEN \E r2 \in Rejected(r) : Set(r, r2)
       ELSE IF Stored(r.code.v) THEN Set(r, [r EXCEPT !.pc = "loop7"])
       ELSE Set(r, [r EXCEPT !.pc = "insert", !.tries = 0])
    /\ UNCHANGED <<store, clock>>

\* server.js:80-84, one iteration of the second do-while
Loop7(r0, rnd, out) ==
    /\ r0.pc = "loop7"
    /\ LET code == generateRandomCode(7, rnd)
           r    == [r0 EXCEPT !.code = Str(code)]
       IN  IF out = "error" THEN \E r2 \in Rejected(r) : Set(r0, r2)
           ELSE IF Stored(code) THEN Set(r0, r)
           ELSE Set(r0, [r EXCEPT !.pc = "insert", !.tries = 0])
    /\ UNCHANGED <<store, clock>>

\* variant: the INSERT overwrites an existing row
Insert_Upsert(r, out) ==
    /\ r.pc = "insert"
    /\ LET code == r.code.v
       IN  IF out = "error"
             THEN /\ Set(r, Respond(r, 500, <<>>))
                  /\ UNCHANGED <<store, clock>>
           ELSE \E t \in Now :
                /\ clock' = t
                /\ store' = [c \in DOMAIN store \cup {code} |->
                               IF c = code THEN NewRow(r.url.v, t) ELSE store[c]]
                /\ Set(r, Respond(r, 201,
                       << [code |-> code, url |-> r.url.v, clicks |-> 0,
                           last_clicked |-> Null, created_at |-> t] >>))

\* variant: a duplicate key sends every create back to generating a code
Insert_Retry(r, out) ==
    /\ r.pc = "insert"
    /\ LET code == r.code.v
       IN  IF out = "error"
             THEN /\ Set(r, Respond(r, 500, <<>>))
                  /\ UNCHANGED <<store, clock>>
           ELSE IF Stored(code)
             THEN /\ Set(r, [r EXCEPT !.pc = "loop7"])
                  /\ UNCHANGED <<store, clock>>
           ELSE \E t \in Now :
                /\ clock' = t
                /\ store' = [c \in DOMAIN store \cup {code} |->
                               IF c = code THEN NewRow(r.url.v, t) ELSE store[c]]
                /\ Set(r, Respond(r, 201,
                       << [code |-> code, url |-> r.url.v, clicks |-> 0,
                           last_clicked |-> Null, created_at |-> t] >>))

\* variant: ON CONFLICT DO NOTHING, and the row that is stored is sent
Insert_Silent(r, out) ==
    /\ r.pc = "insert"
    /\ LET code == r.code.v
       IN  IF out = "error"
             THEN /\ Set(r, Respond(r, 500, <<>>))
                  /\ UNCHANGED <<store, clock>>
           ELSE IF Stored(code)
             THEN /\ Set(r, Respond(r, 201, <<Returned(code)>>))
                  /\ UNCHANGED <<store, clock>>
           ELSE \E t \in Now :
                /\ clock' = t
                /\ store' = [c \in DOMAIN store \cup {code} |->
                               IF c = code THEN NewRow(r.url.v, t) ELSE store[c]]
                /\ Set(r, Respond(r, 201,
                       << [code |-> code, url |-> r.url.v, clicks |-> 0,
                           last_clicked |-> Null, created_at |-> t] >>))

\* server.js:86-97
Insert(r, out) ==
    /\ r.pc = "insert"
    /\ LET code == r.code.v
       IN  IF out = "error"
             THEN /\ Set(r, Respond(r, 500, <<>>))
                  /\ UNCHANGED <<store, clock>>
           ELSE IF Stored(code)
             THEN /\ Set(r, Respond(r, 409, <<>>))
                  /\ UNCHANGED <<store, clock>>
           ELSE \E t \in Now :
                /\ clock' = t
                /\ store' = [c \in DOMAIN store \cup {code} |->
                               IF c = code THEN NewRow(r.url.v, t) ELSE store[c]]
                /\ Set(r, Respond(r, 201,
                       << [code |-> code, url |-> r.url.v, clicks |-> 0,
                           last_clicked |-> Null, created_at |-> t] >>))

(* --------------------------- GET /api/links ---------------------------- *)
\* ORDER BY created_at DESC over the rows of codes S
RECURSIVE OrderDesc(_)
OrderDesc(S) ==
    IF S = {} THEN <<>>
    ELSE LET c == CHOOSE x \in S :
                      \A y \in S : store[x].created_at >= store[y].created_at
         IN  <<Returned(c)>> \o OrderDesc(S \ {c})

\* server.js:104-105
ListStart ==
    /\ Arrives([Blank EXCEPT !.kind = "list", !.pc = "l_select"])
    /\ UNCHANGED <<store, clock>>

\* server.js:106-111
ListSelect(r, out) ==
    /\ r.pc = "l_select"
    /\ IF out = "error"
         THEN Set(r, Respond(r, 500, <<>>))
         ELSE Set(r, Respond(r, 200, OrderDesc(DOMAIN store)))
    /\ UNCHANGED <<store, clock>>

(* ------------------------ GET /api/links/:code ------------------------- *)
\* variant: a malformed code is answered as a missing one
GetStart_NotFound(code) ==
    /\ LET r == [Blank EXCEPT !.kind = "get", !.arg = code, !.code = code]
       IN  IF ~isValidCode(code)
             THEN Arrives(Respond(r, 404, <<>>))
             ELSE Arrives([r EXCEPT !.pc = "g_select"])
    /\ UNCHANGED <<store, clock>>

\* server.js:117-122
GetStart(code) ==
    /\ LET r == [Blank EXCEPT !.kind = "get", !.arg = code, !.code = code]
       IN  IF ~isValidCode(code)
             THEN Arrives(Respond(r, 400, <<>>))
             ELSE Arrives([r EXCEPT !.pc = "g_select"])
    /\ UNCHANGED <<store, clock>>

\* variant: the SELECT has no WHERE clause and the first row is sent
GetSelect_AnyRow(r, out) ==
    /\ r.pc = "g_select"
    /\ IF out = "error" THEN Set(r, Respond(r, 500, <<>>))
       ELSE IF ~Stored(r.code.v) THEN Set(r, Respond(r, 404, <<>>))
       ELSE Set(r, Respond(r, 200, <<OrderDesc(DOMAIN store)[1]>>))
    /\ UNCHANGED <<store, clock>>

\* server.js:123-129
GetSelect(r, out) ==
    /\ r.pc = "g_select"
    /\ IF out = "error" THEN Set(r, Respond(r, 500, <<>>))
       ELSE IF ~Stored(r.code.v) THEN Set(r, Respond(r, 404, <<>>))
       ELSE Set(r, Respond(r, 200, <<Returned(r.code.v)>>))
    /\ UNCHANGED <<store, clock>>

(* ---------------------- DELETE /api/links/:code ------------------------ *)
\* server.js:135-139
DeleteStart(code) ==
    /\ LET r == [Blank EXCEPT !.kind = "delete", !.arg = code, !.code = code]
       IN  IF ~isValidCode(code)
             THEN Arrives(Respond(r, 400, <<>>))
             ELSE Arrives([r EXCEPT !.pc = "d_delete"])
    /\ UNCHANGED <<store, clock>>

\* variant: the DELETE answers 204 and leaves the row
DeleteExec_Keep(r, out) ==
    /\ r.pc = "d_delete"
    /\ IF out = "error" THEN Set(r, Respond(r, 500, <<>>))
       ELSE IF ~Stored(r.code.v) THEN Set(r, Respond(r, 404, <<>>))
       ELSE ~Locked(r.code.v) /\ Set(r, Respond(r, 204, <<>>))
    /\ UNCHANGED <<store, clock>>

\* variant: the DELETE does not wait for the row lock
DeleteExec_NoWait(r, out) ==
    /\ r.pc = "d_delete"
    /\ LET code == r.code.v
       IN  IF out = "error"
             THEN /\ Set(r, Respond(r, 500, <<>>))
                  /\ UNCHANGED store
           ELSE IF ~Stored(code)
             THEN /\ Set(r, Respond(r, 404, <<>>))
                  /\ UNCHANGED store
           ELSE /\ store' = [c \in DOMAIN store \ {code} |-> store[c]]
                /\ Set(r, Respond(r, 204, <<>>))
    /\ UNCHANGED clock

\* server.js:140-146; the DELETE waits for the row lock of an open transaction
DeleteExec(r, out) ==
    /\ r.pc = "d_delete"
    /\ LET code == r.code.v
       IN  IF out = "error"
             THEN /\ Set(r, Respond(r, 500, <<>>))
                  /\ UNCHANGED store
           ELSE IF ~Stored(code)
             THEN /\ Set(r, Respond(r, 404, <<>>))
                  /\ UNCHANGED store
           ELSE /\ ~Locked(code)
                /\ store' = [c \in DOMAIN store \ {code} |-> store[c]]
                /\ Set(r, Respond(r, 204, <<>>))
    /\ UNCHANGED clock

(* ------------------------------ GET /:code ----------------------------- *)
\* variant: the redirect looks up a code of any format
RedirectStart_NoFormat(code) ==
    /\ Arrives([Blank EXCEPT !.kind = "redirect", !.arg = code, !.code = code,
                             !.pc = "connect"])
    /\ UNCHANGED <<store, clock>>

\* server.js:162-168
RedirectStart(code) ==
    /\ LET r == [Blank EXCEPT !.kind = "redirect", !.arg = code, !.code = code]
       IN  IF ~isValidCode(code)
             THEN Arrives(Respond(r, 404, <<>>))
             ELSE Arrives([r EXCEPT !.pc = "connect"])
    /\ UNCHANGED <<store, clock>>

\* server.js:169, outside the try block
Connect(r, out) ==
    /\ r.pc = "connect"
    /\ IF out = "error"
         THEN \E r2 \in Rejected(r) : Set(r, r2)
         ELSE Set(r, [r EXCEPT !.held = TRUE, !.pc = "begin"])
    /\ UNCHANGED <<store, clock>>

\* server.js:171
Begin(r, out) ==
    /\ r.pc = "begin"
    /\ IF out = "error"
         THEN /\ Set(r, [r EXCEPT !.pc = "rollback_err"])
              /\ UNCHANGED clock
         ELSE \E t \in Now :
                /\ clock' = t
                /\ Set(r, [r EXCEPT !.txn = "open", !.txstart = t, !.pc = "select"])
    /\ UNCHANGED store

\* server.js:172-177; FOR UPDATE waits for the row lock of another
\* transaction and then locks the row it finds
Select(r, out) ==
    /\ r.pc = "select"
    /\ LET code == r.code.v
       IN  IF out = "error" THEN Set(r, [r EXCEPT !.pc = "rollback_err"])
           ELSE IF ~Stored(code) THEN Set(r, [r EXCEPT !.pc = "rollback_404"])
           ELSE /\ ~Locked(code)
                /\ Set(r, [r EXCEPT !.lock = TRUE, !.found = store[code].url,
                                    !.pc = "update"])
    /\ UNCHANGED <<store, clock>>

\* client.release() in the finally block
Release(r) == [r EXCEPT !.held = FALSE, !.released = r.released + 1]

\* server.js:174-175, then 185-187
Rollback404(r, out) ==
    /\ r.pc = "rollback_404"
    /\ IF out = "error"
         THEN Set(r, [r EXCEPT !.pc = "rollback_err"])
         ELSE Set(r, Release(Respond([r EXCEPT !.txn = "none"], 404, <<>>)))
    /\ UNCHANGED <<store, clock>>

\* server.js:178
Update(r, out) ==
    /\ r.pc = "update"
    /\ IF out = "error"
         THEN Set(r, [r EXCEPT !.pc = "rollback_err"])
         ELSE Set(r, [r EXCEPT !.dirty = TRUE, !.pc = "commit"])
    /\ UNCHANGED <<store, clock>>

\* variant: the increment is dropped
Clicked_Lost(row, t) == [row EXCEPT !.last_clicked = t]

\* the row after UPDATE links SET clicks = clicks + 1, last_clicked = now()
Clicked(row, t) == [row EXCEPT !.clicks = row.clicks + 1, !.last_clicked = t]

\* variant: the UPDATE has no WHERE clause
Commit_AllRows(r, out) ==
    /\ r.pc = "commit"
    /\ IF out = "error"
         THEN /\ Set(r, [r EXCEPT !.pc = "rollback_err"])
              /\ UNCHANGED store
         ELSE /\ store' = [c \in DOMAIN store |->
                             IF r.dirty THEN Clicked(store[c], r.txstart)
                                        ELSE store[c]]
              /\ Set(r, Release(Finished(
                     [r EXCEPT !.txn = "none", !.lock = FALSE,
                               !.status = 302, !.location = r.found])))
    /\ UNCHANGED clock

\* server.js:179-180, then 185-187
Commit(r, out) ==
    /\ r.pc = "commit"
    /\ LET code == r.code.v
       IN  IF out = "error"
             THEN /\ Set(r, [r EXCEPT !.pc = "rollback_err"])
                  /\ UNCHANGED store
             ELSE /\ store' = [c \in DOMAIN store |->
                                 IF c = code /\ r.dirty
                                   THEN Clicked(store[c], r.txstart)
                                   ELSE store[c]]
                  /\ Set(r, Release(Finished(
                         [r EXCEPT !.txn = "none", !.lock = FALSE,
                                   !.status = 302, !.location = r.found])))
    /\ UNCHANGED clock

\* server.js:181-187: ROLLBACK in the catch block, then finally
RollbackErr(r, out) ==
    /\ r.pc = "rollback_err"
    /\ IF out = "error"
         THEN \E r2 \in Rejected(Release(r)) : Set(r, r2)
         ELSE Set(r, Release(Respond(
                  [r EXCEPT !.txn = "none", !.lock = FALSE], 500, <<>>)))
    /\ UNCHANGED <<store, clock>>

(* ---------------------------- specification ---------------------------- *)
\* the continuation of the handler of request r runs
Step(r) ==
    \/ \E rnd \in RandomDraws(6), out \in Outcomes : Loop6(r, rnd, out)
    \/ \E out \in Outcomes : Recheck(r, out)
    \/ \E rnd \in RandomDraws(7), out \in Outcomes : Loop7(r, rnd, out)
    \/ \E out \in Outcomes : Insert(r, out)
    \/ \E out \in Outcomes : ListSelect(r, out)
    \/ \E out \in Outcomes : GetSelect(r, out)
    \/ \E out \in Outcomes : DeleteExec(r, out)
    \/ \E out \in Outcomes : Connect(r, out)
    \/ \E out \in Outcomes : Begin(r, out)
    \/ \E out \in Outcomes : Select(r, out)
    \/ \E out \in Outcomes : Rollback404(r, out)
    \/ \E out \in Outcomes : Update(r, out)
    \/ \E out \in Outcomes : Commit(r, out)
    \/ \E out \in Outcomes : RollbackErr(r, out)

Next ==
    \/ \E u \in UrlInputs, c \in BodyCodeInputs : CreateStart(u, c)
    \/ ListStart
    \/ \E c \in PathCodeInputs : GetStart(c)
    \/ \E c \in PathCodeInputs : DeleteStart(c)
    \/ \E c \in PathCodeInputs : RedirectStart(c)
    \/ \E r \in Requests, rnd \in RandomDraws(6), out \in Outcomes : Loop6(r, rnd, out)
    \/ \E r \in Requests, out \in Outcomes : Recheck(r, out)
    \/ \E r \in Requests, rnd \in RandomDraws(7), out \in Outcomes : Loop7(r, rnd, out)
    \/ \E r \in Requests, out \in Outcomes : Insert(r, out)
    \/ \E r \in Requests, out \in Outcomes : ListSelect(r, out)
    \/ \E r \in Requests, out \in Outcomes : GetSelect(r, out)
    \/ \E r \in Requests, out \in Outcomes : DeleteExec(r, out)
    \/ \E r \in Requests, out \in Outcomes : Connect(r, out)
    \/ \E r \in Requests, out \in Outcomes : Begin(r, out)
    \/ \E r \in Requests, out \in Outcomes : Select(r, out)
    \/ \E r \in Requests, out \in Outcomes : Rollback404(r, out)
    \/ \E r \in Requests, out \in Outcomes : Update(r, out)
    \/ \E r \in Requests, out \in Outcomes : Commit(r, out)
    \/ \E r \in Requests, out \in Outcomes : RollbackErr(r, out)

Spec == Init /\ [][Next]_vars

\* the positions at which a handler awaits a store call
Awaits ==
    { "loop6", "recheck", "loop7", "insert", "l_select", "g_select", "d_delete",
      "connect", "begin", "select", "rollback_404", "update", "commit",
      "rollback_err" }

\* the event loop runs every continuation that is ready and the store
\* answers every call
FairSpec ==
    Spec /\ \A k \in Awaits : WF_vars(\E r \in Requests : r.pc = k /\ Step(r))

\* requests sent one at a time: a request arrives when no other is in flight
Quiet == \A r \in Requests : r.pc = "done"

SeqCreateStart(u, c) == Quiet /\ CreateStart(u, c)
SeqListStart == Quiet /\ ListStart
SeqGetStart(c) == Quiet /\ GetStart(c)
SeqDeleteStart(c) == Quiet /\ DeleteStart(c)
SeqRedirectStart(c) == Quiet /\ RedirectStart(c)

NextSeq ==
    \/ \E u \in UrlInputs, c \in BodyCodeInputs : SeqCreateStart(u, c)
    \/ SeqListStart
    \/ \E c \in PathCodeInputs : SeqGetStart(c)
    \/ \E c \in PathCodeInputs : SeqDeleteStart(c)
    \/ \E c \in PathCodeInputs : SeqRedirectStart(c)
    \/ \E r \in Requests, rnd \in RandomDraws(6), out \in Outcomes : Loop6(r, rnd, out)
    \/ \E r \in Requests, out \in Outcomes : Recheck(r, out)
    \/ \E r \in Requests, rnd \in RandomDraws(7), out \in Outcomes : Loop7(r, rnd, out)
    \/ \E r \in Requests, out \in Outcomes : Insert(r, out)
    \/ \E r \in Requests, out \in Outcomes : ListSelect(r, out)
    \/ \E r \in Requests, out \in Outcomes : GetSelect(r, out)
    \/ \E r \in Requests, out \in Outcomes : DeleteExec(r, out)
    \/ \E r \in Requests, out \in Outcomes : Connect(r, out)
    \/ \E r \in Requests, out \in Outcomes : Begin(r, out)
    \/ \E r \in Requests, out \in Outcomes : Select(r, out)
    \/ \E r \in Requests, out \in Outcomes : Rollback404(r, out)
    \/ \E r \in Requests, out \in Outcomes : Update(r, out)
    \/ \E r \in Requests, out \in Outcomes : Commit(r, out)
    \/ \E r \in Requests, out \in Outcomes : RollbackErr(r, out)

SeqSpec == Init /\ [][NextSeq]_vars

\* runs of at most MaxInputRequests requests with the larger sets of values
InputCreateStart(u, c) ==
    BagCardinality(reqs) < MaxInputRequests /\ CreateStart(u, c)
InputListStart == BagCardinality(reqs) < MaxInputRequests /\ ListStart
InputGetStart(c) == BagCardinality(reqs) < MaxInputRequests /\ GetStart(c)
InputDeleteStart(c) == BagCardinality(reqs) < MaxInputRequests /\ DeleteStart(c)
InputRedirectStart(c) ==
    BagCardinality(reqs) < MaxInputRequests /\ RedirectStart(c)

NextInput ==
    \/ \E u \in WideUrlInputs, c \in WideBodyCodeInputs : InputCreateStart(u, c)
    \/ InputListStart
    \/ \E c \in WidePathCodeInputs : InputGetStart(c)
    \/ \E c \in WidePathCodeInputs : InputDeleteStart(c)
    \/ \E c \in WidePathCodeInputs : InputRedirectStart(c)
    \/ \E r \in Requests, rnd \in RandomDraws(6), out \in Outcomes : Loop6(r, rnd, out)
    \/ \E r \in Requests, out \in Outcomes : Recheck(r, out)
    \/ \E r \in Requests, rnd \in RandomDraws(7), out \in Outcomes : Loop7(r, rnd, out)
    \/ \E r \in Requests, out \in Outcomes : Insert(r, out)
    \/ \E r \in Requests, out \in Outcomes : ListSelect(r, out)
    \/ \E r \in Requests, out \in Outcomes : GetSelect(r, out)
    \/ \E r \in Requests, out \in Outcomes : DeleteExec(r, out)
    \/ \E r \in Requests, out \in Outcomes : Connect(r, out)
    \/ \E r \in Requests, out \in Outcomes : Begin(r, out)
    \/ \E r \in Requests, out \in Outcomes : Select(r, out)
    \/ \E r \in Requests, out \in Outcomes : Rollback404(r, out)
    \/ \E r \in Requests, out \in Outcomes : Update(r, out)
    \/ \E r \in Requests, out \in Outcomes : Commit(r, out)
    \/ \E r \in Requests, out \in Outcomes : RollbackErr(r, out)

InputSpec == Init /\ [][NextInput]_vars

\* concurrent creates with two valid urls, and deletes
NextRace ==
    \/ \E u \in RaceUrlInputs, c \in RaceCodeInputs : CreateStart(u, c)
    \/ \E c \in PathCodeInputs : DeleteStart(c)
    \/ \E r \in Requests, rnd \in RandomDraws(6), out \in Outcomes : Loop6(r, rnd, out)
    \/ \E r \in Requests, out \in Outcomes : Recheck(r, out)
    \/ \E r \in Requests, rnd \in RandomDraws(7), out \in Outcomes : Loop7(r, rnd, out)
    \/ \E r \in Requests, out \in Outcomes : Insert(r, out)
    \/ \E r \in Requests, out \in Outcomes : DeleteExec(r, out)

RaceSpec == Init /\ [][NextRace]_vars

(* ------------------------------ properties ----------------------------- *)
\* the request whose handler runs in this step, as it was before the step
\* (none when a request arrives)
Before == BagToSet(reqs (-) reqs')

\* the same request after the step
After == BagToSet(reqs' (-) reqs)

\* a DELETE of code c has been answered 204
DeleteDone(rs, c) ==
    \E x \in BagToSet(rs) : x.kind = "delete" /\ x.arg = Str(c) /\ x.status = 204

\* number of redirects of code c answered 302
Hits(rs, c) ==
    LET F == {x \in BagToSet(rs) :
                x.kind = "redirect" /\ x.arg = Str(c) /\ x.status = 302}
    IN  BagCardinality([x \in F |-> rs[x]])

\* C1: concurrent redirects of one stored code lose no increment.  A redirect
\* whose SELECT finds the row never takes the not-found branch; a redirect is
\* answered 302 with the stored url in the step that raises clicks by one;
\* and as long as no DELETE of the code succeeded, the stored clicks is the
\* number of redirects of that code answered 302 (every row starts at 0).
C1_NoLostIncrement ==
    [][ /\ \A r \in Before, r2 \in After :
             /\ r.pc = "select" /\ Stored(r.code.v)
                  => r2.pc \in {"update", "rollback_err"}
             /\ r.kind = "redirect" /\ r2.status = 302
                  => /\ Stored(r.code.v)
                     /\ r2.location = store[r.code.v].url
                     /\ store'[r.code.v].clicks = store[r.code.v].clicks + 1
        /\ \A c \in DOMAIN store' :
             ~DeleteDone(reqs', c) => store'[c].clicks = Hits(reqs', c)
      ]_vars

\* two redirects of the same code are both answered 302 and both counted
C1_Witness ==
    \E r \in Requests :
        /\ r.kind = "redirect" /\ r.status = 302
        /\ CopiesIn(r, reqs) = 2
        /\ Stored(r.arg.v)
        /\ store[r.arg.v].clicks = 2
        /\ r.location = store[r.arg.v].url

\* C2: a redirect racing a DELETE of its code is all or nothing.  It is
\* answered 302 exactly in the step that commits its increment on a row that
\* exists before and after the step; clicks of a row changes in no other
\* step; a redirect answered 404 changes nothing; and the DELETE removes the
\* row only while no redirect holds it between its SELECT and its COMMIT.
C2_RedirectVsDelete ==
    [][ /\ \A r \in Before, r2 \in After :
             /\ r.kind = "redirect" /\ r2.status = 302
                  => /\ r.code.v \in DOMAIN store \cap DOMAIN store'
                     /\ store'[r.code.v].clicks = store[r.code.v].clicks + 1
                     /\ r2.location = store'[r.code.v].url
             /\ r.kind = "redirect" /\ r2.status = 404
                  => store' = store /\ ~r.dirty /\ ~r.lock
             /\ r.kind = "delete" /\ r2.status = 204
                  => /\ r.code.v \in DOMAIN store \ DOMAIN store'
                     /\ \A q \in Requests :
                          q.pc \in {"update", "commit"} => q.code # r.code
        /\ \A c \in DOMAIN store \cap DOMAIN store' :
             store'[c].clicks # store[c].clicks
               => \E r \in Before, r2 \in After :
                    /\ r.kind = "redirect" /\ r.code = Str(c) /\ r2.status = 302
      ]_vars

\* a redirect was answered 302 and a DELETE of the same code 204
C2_Witness ==
    \E r, q \in Requests :
        /\ r.kind = "redirect" /\ r.status = 302
        /\ q.kind = "delete" /\ q.status = 204
        /\ r.arg = q.arg
        /\ ~Stored(r.arg.v)

\* request r is a create that supplied no code
Generating(r) == r.kind = "create" /\ ~Truthy(r.arg)

\* C3: a create without a supplied code is never answered 409.
C3_NoConflictForGenerated ==
    \A r \in Requests : Generating(r) => r.status # 409

\* C4 as claimed: once a DELETE of a code was answered 204 the code is never
\* stored again, so that every later redirect of it is answered 404.
C4_DeletedIsTerminal ==
    \A r \in Requests :
        r.kind = "delete" /\ r.status = 204 => ~Stored(r.arg.v)

\* C4 as amended: the DELETE answered 204 leaves the code absent; a code
\* becomes stored only in the step in which a create is answered 201 with it;
\* and a redirect whose SELECT finds no row takes the not-found branch and
\* is answered 404 without a change.  So a deleted code is answered 404
\* until a create stores it again.
C4_DeletedUntilRecreated ==
    [][ /\ \A r \in Before, r2 \in After :
             /\ r.kind = "delete" /\ r2.status = 204
                  => ~(r.arg.v \in DOMAIN store')
             /\ r.pc = "select" /\ ~Stored(r.code.v)
                  => r2.pc \in {"rollback_404", "rollback_err"}
             /\ r.pc = "rollback_404" /\ r2.pc = "done"
                  => r2.status = 404 /\ store' = store
        /\ \A c \in DOMAIN store' \ DOMAIN store :
             \E r \in Before, r2 \in After :
                 /\ r.kind = "create" /\ r2.status = 201
                 /\ r2.rows[1].code = c
      ]_vars

\* a code was deleted and a later create stored it again
C4_Witness ==
    \E r, q \in Requests :
        /\ r.kind = "delete" /\ r.status = 204
        /\ q.kind = "create" /\ q.status = 201
        /\ q.rows[1].code = r.arg.v
        /\ Stored(r.arg.v)

\* C5: every create request comes to an end.
C5_CreateTerminates ==
    []<>(\A r \in Requests : r.kind = "create" => r.pc = "done")

\* C6: with one request at a time, a create without a supplied code counts a
\* try exactly for each generated 6-character code that is stored; a free
\* code found within the 5 tries is the code inserted; after 5 stored codes
\* the second loop runs and the code inserted has 7 characters; and the
\* INSERT stores the link under that code.
C6_Escalation ==
    [][ \A r \in Before, r2 \in After :
          Generating(r) /\ ~r2.rejected =>
            /\ r.pc = "loop6" =>
                 /\ Len(r2.code.v) = 6
                 /\ IF Stored(r2.code.v)
                      THEN /\ r2.tries = r.tries + 1
                           /\ r2.pc = IF r2.tries < 5 THEN "loop6" ELSE "recheck"
                      ELSE /\ r2.tries = r.tries
                           /\ r2.pc = "recheck"
            /\ r.pc = "recheck" =>
                 /\ r2.code = r.code
                 /\ r2.pc = IF r.tries < 5 THEN "insert" ELSE "loop7"
            /\ r.pc = "loop7" =>
                 /\ r.tries = 5
                 /\ Len(r2.code.v) = 7
                 /\ r2.pc = IF Stored(r2.code.v) THEN "loop7" ELSE "insert"
            /\ r.pc = "insert" =>
                 /\ r2.status \in {201, 500}
                 /\ r2.status = 201 =>
                      /\ r2.rows[1].code = r.code.v
                      /\ r.code.v \in DOMAIN store' \ DOMAIN store
                      /\ store'[r.code.v].url = r.url.v
      ]_vars

\* one create escalated to a 7-character code and another got a 6-character one
C6_Witness ==
    \E r, q \in Requests :
        /\ Generating(r) /\ r.status = 201 /\ Len(r.rows[1].code) = 7
        /\ Generating(q) /\ q.status = 201 /\ Len(q.rows[1].code) = 6
        /\ Stored(r.rows[1].code) /\ Stored(q.rows[1].code)

\* C7: a create is answered 201 only in the step that inserts its code, which
\* was absent before the step and matches the code format (6 or 7 characters
\* when generated); two creates answered 201 with the same code imply a
\* DELETE of that code in between.
C7_UniqueCodes ==
    [][ /\ \A r \in Before, r2 \in After :
             r.kind = "create" /\ r2.status = 201 =>
               LET c == r2.rows[1].code
               IN  /\ c \in DOMAIN store' \ DOMAIN store
                   /\ store'[c].url = r.url.v
                   /\ r2.rows[1].url = r.url.v
                   /\ isValidCode(Str(c))
                   /\ Generating(r) => Len(c) \in {6, 7}
        /\ \A r, q \in BagToSet(reqs') :
             /\ r.kind = "create" /\ r.status = 201
             /\ q.kind = "create" /\ q.status = 201
             /\ r.rows[1].code = q.rows[1].code
             /\ r # q \/ CopiesIn(r, reqs') > 1
             => DeleteDone(reqs', r.rows[1].code)
      ]_vars

\* two creates of the same url without a code got different codes
C7_Witness ==
    \E r, q \in Requests :
        /\ Generating(r) /\ r.status = 201
        /\ Generating(q) /\ q.status = 201
        /\ r.rows[1].url = q.rows[1].url
        /\ r.rows[1].code # q.rows[1].code
        /\ Stored(r.rows[1].code) /\ Stored(q.rows[1].code)

C9_RollbackThen500 ==
    [][ \A r \in Before, r2 \in After :
          r.pc = "rollback_err" /\ r.lock /\ r2.pc = "done"
          => /\ r2.status = 500
             /\ r2.txn = "none"
             /\ ~r2.lock
             /\ store' = store
      ]_vars

\* C10: every handler that has finished has sent a response.
C10_AlwaysAnswered ==
    \A r \in Requests : r.pc = "done" => r.status # 0

\* C11: a redirect of a code that fails the format is answered 404 in the
\* step in which it arrives: no client is taken from the pool, no transaction
\* is begun and nothing is read or changed.  A redirect of a well-formed code
\* whose SELECT finds no row takes the not-found branch without a row lock
\* or an update, and its ROLLBACK ends it with 404, the client released and
\* the table as it was; a redirect answered 404 changes nothing.
C11_Redirect404 ==
    [][ /\ \A r2 \in After :
             Before = {} /\ r2.kind = "redirect" /\ ~isValidCode(r2.arg) =>
               /\ r2.pc = "done" /\ r2.status = 404 /\ ~r2.rejected
               /\ ~r2.held /\ r2.released = 0
               /\ r2.txn = "none" /\ ~r2.lock
               /\ store' = store /\ clock' = clock
        /\ \A r \in Before, r2 \in After : r.kind = "redirect" =>
             /\ isValidCode(r.arg)
             /\ r.pc = "select" /\ ~Stored(r.code.v) =>
                  /\ r2.pc \in {"rollback_404", "rollback_err"}
                  /\ ~r2.lock /\ ~r2.dirty
                  /\ store' = store
             /\ r.pc = "rollback_404" /\ r2.pc = "done" =>
                  /\ r2.status = 404 /\ r2.txn = "none"
                  /\ ~r2.held /\ r2.released = 1
                  /\ store' = store
             /\ r2.status = 404 =>
                  /\ r.pc = "rollback_404" /\ ~r.dirty /\ ~r.lock
                  /\ store' = store
      ]_vars

\* a redirect of a malformed code and a redirect of a well-formed code that
\* is not stored were both answered 404
C11_Witness ==
    \E r, q \in Requests :
        /\ r.kind = "redirect" /\ ~isValidCode(r.arg) /\ r.status = 404
        /\ r.released = 0
        /\ q.kind = "redirect" /\ isValidCode(q.arg) /\ q.status = 404
        /\ q.released = 1 /\ ~Stored(q.arg.v)

\* C12 as claimed: a get or a delete of a code that fails the format is
\* answered 404, as the same operation on a well-formed code that is not
\* stored.
C12_MalformedIsNotFound ==
    \A r \in Requests :
        r.kind \in {"get", "delete"} /\ r.pc = "done" /\ ~isValidCode(r.arg)
          => r.status = 404

\* C12 as amended: a get or a delete of a code that fails the format is
\* answered 400 in the step in which it arrives, without a store access;
\* the same operation on a well-formed code that is not stored is answered
\* 404 by its store call (500 when the call fails) and changes nothing.
C12_MalformedIs400 ==
    [][ /\ \A r2 \in After :
             /\ Before = {}
             /\ r2.kind \in {"get", "delete"} /\ ~isValidCode(r2.arg)
             => /\ r2.pc = "done" /\ r2.status = 400 /\ r2.rows = <<>>
                /\ store' = store /\ clock' = clock
        /\ \A r \in Before, r2 \in After : r.kind \in {"get", "delete"} =>
             /\ isValidCode(r.arg)
             /\ r2.pc = "done" /\ r2.status # 400
             /\ ~Stored(r.code.v) => r2.status \in {404, 500} /\ store' = store
             /\ r2.status = 404 => ~Stored(r.code.v) /\ store' = store
      ]_vars

\* a get or a delete of a code with a space was answered 400
C12_Witness ==
    \E r \in Requests :
        /\ r.kind \in {"get", "delete"}
        /\ r.arg = Str(CodeSpace)
        /\ r.status = 400

\* the url of a request is missing, not a string, has no scheme, has a
\* scheme other than http and https, or has nothing after the scheme
BadUrl(u) ==
    \/ u.t # "string"
    \/ LET k == IndexOf(u.v, ":")
       IN  \/ k = 0
           \/ [i \in 1..(k-1) |-> Lower(u.v[i])]
                 \notin {<<"h","t","t","p">>, <<"h","t","t","p","s">>}
           \/ \A i \in (k+1)..Len(u.v) : u.v[i] = "/"

\* C13: a create whose url is missing, not a string, not absolute or not
\* http(s) is answered 400 in the step in which it arrives, with the table
\* as it was, whatever code it carries; no create with such a url ever
\* reaches a lookup or an insert.
C13_InvalidUrl ==
    [][ /\ \A r2 \in After :
             Before = {} /\ r2.kind = "create" /\ BadUrl(r2.url) =>
               /\ r2.pc = "done" /\ r2.status = 400 /\ r2.rows = <<>>
               /\ store' = store /\ clock' = clock
        /\ \A r \in Before : r.kind = "create" => ~BadUrl(r.url)
      ]_vars

\* a create with an ftp url and a well-formed code was answered 400
C13_Witness ==
    \E r \in Requests :
        /\ r.kind = "create"
        /\ r.url = Str(UrlFtp)
        /\ r.arg = Str(Code6)
        /\ r.status = 400

\* C14: a create is answered 201 with the row it stores: its url, clicks 0
\* and last_clicked null.  A get answered 200 returns the stored row of its
\* code.  A stored row changes only in the step that answers 302 to a
\* redirect of its code.  So while no redirect of the code was answered 302
\* and no delete of it 204, the stored row is the one the create returned.
C14_RoundTrip ==
    [][ /\ \A r \in Before, r2 \in After :
             /\ r.kind = "create" /\ r2.status = 201 =>
                  LET c == r.code.v
                  IN  /\ c \in DOMAIN store'
                      /\ store'[c].url = r.url.v
                      /\ store'[c].clicks = 0
                      /\ store'[c].last_clicked = Null
                      /\ r2.rows = << [code |-> c, url |-> r.url.v, clicks |-> 0,
                                       last_clicked |-> Null,
                                       created_at |-> store'[c].created_at] >>
             /\ r.kind = "get" /\ r2.status = 200 =>
                  /\ Stored(r.arg.v)
                  /\ store' = store
                  /\ r2.rows = << [code |-> r.arg.v,
                                   url |-> store[r.arg.v].url,
                                   clicks |-> store[r.arg.v].clicks,
                                   last_clicked |-> store[r.arg.v].last_clicked,
                                   created_at |-> store[r.arg.v].created_at] >>
        /\ \A c \in DOMAIN store \cap DOMAIN store' :
             store'[c] # store[c] =>
               \E r \in Before, r2 \in After :
                   r.kind = "redirect" /\ r.arg = Str(c) /\ r2.status = 302
        /\ \A q \in BagToSet(reqs') :
             /\ q.kind = "create" /\ q.status = 201
             /\ Hits(reqs', q.rows[1].code) = 0
             /\ ~DeleteDone(reqs', q.rows[1].code)
             => /\ q.rows[1].code \in DOMAIN store'
                /\ store'[q.rows[1].code] =
                     [url |-> q.url.v, clicks |-> 0, last_clicked |-> Null,
                      created_at |-> q.rows[1].created_at]
      ]_vars

\* a create was answered 201 and a get of its code returned the same row
C14_Witness ==
    \E r, q \in Requests :
        /\ r.kind = "create" /\ r.status = 201
        /\ q.kind = "get" /\ q.status = 200
        /\ q.arg.v = r.rows[1].code
        /\ q.rows = r.rows
        /\ q.rows[1].url = r.url.v
        /\ q.rows[1].clicks = 0 /\ q.rows[1].last_clicked = Null

\* C15: for every stored link clicks is a natural number, last_clicked is
\* null exactly when clicks is 0, clicks never decreases while the link
\* exists, a redirect answered 302 raises it by exactly 1, and last_clicked,
\* once set, never moves backwards.
C15_ClicksAndLastClicked ==
    [][ /\ \A c \in DOMAIN store' :
             /\ store'[c].clicks \in Nat
             /\ (store'[c].last_clicked = Null) <=> (store'[c].clicks = 0)
        /\ \A c \in DOMAIN store \cap DOMAIN store' :
             /\ store'[c].clicks >= store[c].clicks
             /\ store[c].last_clicked # Null
                  => store'[c].last_clicked >= store[c].last_clicked
        /\ \A r \in Before, r2 \in After :
             r.kind = "redirect" /\ r2.status = 302 =>
               /\ r.arg.v \in DOMAIN store \cap DOMAIN store'
               /\ store'[r.arg.v].clicks = store[r.arg.v].clicks + 1
      ]_vars

\* request r is a create that supplied a code
Supplying(r) == r.kind = "create" /\ Truthy(r.arg)

\* C16: creates that supply the same code race only in their INSERT, which
\* ends the request in one step with the supplied code: on a code that is
\* not stored it answers 201 and stores the request's own url (500 and no
\* change when the store call fails), on a stored code it answers 409 (or
\* 500) and leaves the row of the winner.  Two such creates are both answered
\* 201 only with a delete of the code in between, and the url stored is that
\* of the create answered 201.
C16_SuppliedRace ==
    [][ /\ \A r \in Before, r2 \in After : Supplying(r) =>
             /\ r.pc = "insert" /\ r.code = r.arg
             /\ r2.pc = "done" /\ ~r2.rejected
             /\ IF Stored(r.arg.v)
                  THEN r2.status \in {409, 500} /\ store' = store
                  ELSE /\ r2.status \in {201, 500}
                       /\ r2.status = 500 => store' = store
                       /\ r2.status = 201 =>
                            /\ r2.rows[1].code = r.arg.v
                            /\ r2.rows[1].url = r.url.v
                            /\ store'[r.arg.v].url = r.url.v
        /\ \A r, q \in BagToSet(reqs') :
             /\ Supplying(r) /\ Supplying(q) /\ r.arg = q.arg
             /\ r # q \/ CopiesIn(r, reqs') > 1
             /\ ~DeleteDone(reqs', r.arg.v)
             => /\ ~(r.status = 201 /\ q.status = 201)
                /\ r.status = 201 /\ q.pc = "done" =>
                     /\ q.status \in {409, 500}
                     /\ r.arg.v \in DOMAIN store'
                     /\ store'[r.arg.v].url = r.url.v
      ]_vars

\* two creates supplied the same code with different urls: one was answered
\* 201, the other 409, and the url stored is the first one's
C16_Witness ==
    \E r, q \in Requests :
        /\ Supplying(r) /\ Supplying(q) /\ r.arg = q.arg
        /\ r.url # q.url
        /\ r.status = 201 /\ q.status = 409
        /\ Stored(r.arg.v)
        /\ store[r.arg.v].url = r.url.v

\* C17: a create without a supplied code is in the loop that generates
\* 7-character codes only after 5 generated 6-character codes were found
\* stored.
C17_SevenOnlyAfterFive ==
    \A r \in Requests : Generating(r) /\ r.pc = "loop7" => r.tries = 5

\* the value is not a string of 6 to 8 alphanumeric characters
BadCode(c) ==
    \/ c.t # "string"
    \/ Len(c.v) \notin 6..8
    \/ \E i \in 1..Len(c.v) : c.v[i] \notin Alnum

\* C18: a create whose body carries a code that fails the format, the empty
\* string and non-string values included, is answered 400 in the step in
\* which it arrives: it never gets to generate or store a code.
C18_InvalidCodeRejected ==
    \A r \in Requests :
        r.kind = "create" /\ r.arg # Undefined /\ BadCode(r.arg)
          => r.pc = "done" /\ r.status = 400

\* C19: url and created_at of a link never change while it is stored; its
\* clicks and last_clicked change only in the step that answers 302 to a
\* redirect of its code; it is removed only in the step that answers 204 to
\* a delete of its code and stored only in the step that answers 201 to a
\* create with its code.  The step of a request changes no link but that of
\* the request's code; a list, a get, an arriving request and a request
\* answered 400, 404, 409 or 500 change nothing.
C19_Frame ==
    [][ /\ \A c \in DOMAIN store \cap DOMAIN store' :
             /\ store'[c].url = store[c].url
             /\ store'[c].created_at = store[c].created_at
             /\ store'[c] # store[c] =>
                  \E r \in Before, r2 \in After :
                      r.kind = "redirect" /\ r.arg = Str(c) /\ r2.status = 302
        /\ \A c \in DOMAIN store \ DOMAIN store' :
             \E r \in Before, r2 \in After :
                 r.kind = "delete" /\ r.arg = Str(c) /\ r2.status = 204
        /\ \A c \in DOMAIN store' \ DOMAIN store :
             \E r \in Before, r2 \in After :
                 r.kind = "create" /\ r.code = Str(c) /\ r2.status = 201
        /\ Before = {} => store' = store
        /\ \A r \in Before, r2 \in After :
             /\ r.kind \in {"list", "get"} => store' = store
             /\ r2.status \in {400, 404, 409, 500} => store' = store
             /\ \A c \in DOMAIN store \cup DOMAIN store' :
                  Str(c) # r.code =>
                    /\ c \in DOMAIN store \cap DOMAIN store'
                    /\ store'[c] = store[c]
      ]_vars

\* a redirect was answered 302 and a create 409 while another link stayed
\* as it was stored
C19_Witness ==
    \E r, q \in Requests :
        /\ r.kind = "redirect" /\ r.status = 302
        /\ q.kind = "create" /\ q.status = 409
        /\ Stored(r.arg.v) /\ store[r.arg.v].clicks = 1
        /\ \E c \in DOMAIN store :
               c # r.arg.v /\ store[c] = NewRow(UrlA, 1)

\* C20: a redirect never releases its client twice; when its handler has
\* finished the client it took is back in the pool; and a client that was
\* released has no open transaction and holds no row lock.
C20_ReleasedOnceAndClean ==
    \A r \in Requests :
        r.kind = "redirect" =>
          /\ r.released <= 1
          /\ r.pc = "done" => ~r.held
          /\ r.released = 1 => r.txn = "none" /\ ~r.lock

====
